---- MODULE Spec2Model ----
(***************************************************************************)
(* Model of notes_frontend/src/routes/index.tsx: the in-memory note list,  *)
(* the three localStorage keys, the create / edit / delete dialogs and the *)
(* computed filtered list.                                                 *)
(*                                                                         *)
(* A JavaScript string is a sequence of one-character strings.  A          *)
(* localStorage text is JSONStringify(tree) when it is the JSON text of    *)
(* the tree, Raw(chars) when it is any other text,                         *)
(* and Absent when getItem returns null.  selectedNote is <<>> for null    *)
(* and <<n>> for the note n.                                               *)
(***************************************************************************)
EXTENDS Integers, Sequences, FiniteSets, TLC

\* ------------------------------------------------------------------ bounds
\* most handler invocations of one session, the startup task not counted
MaxEvents == 6
\* Math.random() draws one of 0..MaxRand
MaxRand == 1

\* ----------------------------------------------------------------- strings
Untitled == <<"U", "n", "t", "i", "t", "l", "e", "d">>

\* String.prototype.toLowerCase on one character of the alphabet used here
LowerChar(c) ==
  IF c = "A" THEN "a" ELSE IF c = "B" THEN "b" ELSE IF c = "U" THEN "u" ELSE c

ToLowerCase(s) == [i \in 1..Len(s) |-> LowerChar(s[i])]

IsSpace(c) == c = " "

SetMin(S) == CHOOSE x \in S : \A y \in S : x <= y
SetMax(S) == CHOOSE x \in S : \A y \in S : x >= y

\* String.prototype.trim
Trim(s) ==
  LET keep == {i \in 1..Len(s) : ~IsSpace(s[i])}
  IN  IF keep = {} THEN <<>> ELSE SubSeq(s, SetMin(keep), SetMax(keep))

\* String.prototype.split(","): n commas give n+1 pieces, empty ones included
Split(s) ==
  LET commas == {i \in 1..Len(s) : s[i] = ","}
      n == Cardinality(commas)
      Pos(k) == IF k = 0 THEN 0
                ELSE IF k = n + 1 THEN Len(s) + 1
                ELSE CHOOSE i \in commas : Cardinality({j \in commas : j < i}) = k - 1
  IN  [k \in 1..(n + 1) |-> SubSeq(s, Pos(k - 1) + 1, Pos(k) - 1)]

\* String.prototype.includes
Includes(hay, needle) ==
  \E i \in 0..(Len(hay) - Len(needle)) : SubSeq(hay, i + 1, i + Len(needle)) = needle

\* Array.prototype.join(", ")
RECURSIVE Join(_)
Join(tags) ==
  IF Len(tags) = 0 THEN <<>>
  ELSE IF Len(tags) = 1 THEN tags[1]
  ELSE tags[1] \o <<",", " ">> \o Join(Tail(tags))

\* a title that is trimmed but gets no default: form.title.trim()
NormTitleNoDefault(raw) == Trim(raw)

\* form.title.trim() || "Untitled"
NormTitle(raw) == IF Trim(raw) = <<>> THEN Untitled ELSE Trim(raw)

\* form.content.trim()
NormContent(raw) == Trim(raw)

\* form.tags.split(",").map((t) => t.trim()).filter(Boolean)
NormTags(raw) ==
  LET pieces == Split(raw)
      trimmed == [k \in 1..Len(pieces) |-> Trim(pieces[k])]
  IN  SelectSeq(trimmed, LAMBDA t : t # <<>>)

\* Number.prototype.toString(36) of one base-36 digit
Digit36(n) ==
  <<"0", "1", "2", "3", "4", "5", "6", "7", "8", "9", "a", "b", "c", "d", "e", "f",
    "g", "h", "i", "j", "k", "l", "m", "n", "o", "p", "q", "r", "s", "t", "u", "v",
    "w", "x", "y", "z">>[n + 1]

\* Math.random().toString(36).slice(2) + Date.now().toString(36)
uid(r, t) == <<Digit36(r)>> \o <<Digit36(t)>>

\* -------------------------------------------------------------------- JSON
\* one shape for every tree: tag, number, string, children
J(t, n, s, a) == [t |-> t, n |-> n, s |-> s, a |-> a]
JNull == J("null", 0, <<>>, <<>>)
JNum(n) == J("num", n, <<>>, <<>>)
JStr(s) == J("str", 0, s, <<>>)
JArr(a) == J("arr", 0, <<>>, a)
\* an object is its members in key order, a member is a key and a value
JMember(k, val) == J("member", 0, <<k>>, <<val>>)
JObj(members) == J("obj", 0, <<>>, members)
\* obj[k]
JGet(obj, k) == obj.a[CHOOSE i \in 1..Len(obj.a) : obj.a[i].s = <<k>>].a[1]

Absent == [p |-> "absent", s |-> <<>>, j |-> JNull]
Raw(s) == [p |-> "raw", s |-> s, j |-> JNull]

\* JSON.stringify of a value whose tree is j
JSONStringify(j) == [p |-> "json", s |-> <<>>, j |-> j]

\* JSON.parse succeeds exactly on a JSON text
Parses(text) == text.p = "json"
JSONParse(text) == text.j

\* !raw: getItem gave null or the empty string
Falsy(text) == text.p = "absent" \/ (text.p = "raw" /\ text.s = <<>>)

\* JavaScript truthiness of a parsed value
Truthy(j) ==
  CASE j.t = "null" -> FALSE
    [] j.t = "num" -> j.n # 0
    [] j.t = "str" -> j.s # <<>>
    [] OTHER -> TRUE

\* the JSON tree of a Note, keys in the order createNote writes them
NoteToJson(n) ==
  JObj(<<JMember("id", JStr(n.id)), JMember("title", JStr(n.title)),
         JMember("content", JStr(n.content)),
         JMember("tags", JArr([k \in 1..Len(n.tags) |-> JStr(n.tags[k])])),
         JMember("createdAt", JNum(n.createdAt)),
         JMember("updatedAt", JNum(n.updatedAt))>>)

\* the Note a parsed object is read as
NoteOfJson(j) ==
  [id |-> JGet(j, "id").s, title |-> JGet(j, "title").s,
   content |-> JGet(j, "content").s,
   tags |-> [k \in 1..Len(JGet(j, "tags").a) |-> JGet(j, "tags").a[k].s],
   createdAt |-> JGet(j, "createdAt").n, updatedAt |-> JGet(j, "updatedAt").n]

\* the JSON tree of a User
UserToJson(email, name) ==
  JObj(<<JMember("email", JStr(email)), JMember("name", JStr(name))>>)

\* ------------------------------------------------------------ localStorage
LS_NOTES_KEY == "notes_frontend__notes"
LS_USER_KEY == "notes_frontend__user"
LS_VIEWMODE_KEY == "notes_frontend__viewmode"
Keys == {LS_NOTES_KEY, LS_USER_KEY, LS_VIEWMODE_KEY}

Grid == <<"g", "r", "i", "d">>
List == <<"l", "i", "s", "t">>

loadNotes(st) ==
  LET raw == st[LS_NOTES_KEY]
  IN  IF Falsy(raw) THEN <<>>
      ELSE IF ~Parses(raw) THEN <<>>
      ELSE IF JSONParse(raw).t = "arr"
           THEN [k \in 1..Len(JSONParse(raw).a) |-> NoteOfJson(JSONParse(raw).a[k])]
           ELSE <<>>

\* a write of the newest note alone, not of the whole list
saveNotesDelta(st, list) ==
  [st EXCEPT ![LS_NOTES_KEY] =
     JSONStringify(JArr([k \in 1..(IF Len(list) = 0 THEN 0 ELSE 1) |-> NoteToJson(list[k])]))]

\* a saveNotes that reads the key again and keeps the stored notes that the
\* list does not hold
saveNotesMerge(st, list) ==
  LET kept == SelectSeq(loadNotes(st),
                        LAMBDA m : \A k \in 1..Len(list) : list[k].id # m.id)
      all == list \o kept
  IN  [st EXCEPT ![LS_NOTES_KEY] =
         JSONStringify(JArr([k \in 1..Len(all) |-> NoteToJson(all[k])]))]

saveNotes(st, list) ==
  [st EXCEPT ![LS_NOTES_KEY] =
     JSONStringify(JArr([k \in 1..Len(list) |-> NoteToJson(list[k])]))]

loadUser(st) ==
  LET raw == st[LS_USER_KEY]
  IN  IF Falsy(raw) THEN JNull
      ELSE IF ~Parses(raw) THEN JNull
      ELSE JSONParse(raw)

\* a saveUser that writes whatever it is given, the text null for no identity
saveUserAlways(st, u) == [st EXCEPT ![LS_USER_KEY] = JSONStringify(u)]

saveUser(st, u) ==
  IF Truthy(u) THEN [st EXCEPT ![LS_USER_KEY] = JSONStringify(u)]
  ELSE [st EXCEPT ![LS_USER_KEY] = Absent]

\* the view mode after the startup task, given the mode before it
loadViewMode(st, vm) ==
  LET raw == st[LS_VIEWMODE_KEY]
  IN  IF raw.p = "raw" /\ (raw.s = Grid \/ raw.s = List) THEN raw.s ELSE vm

\* ------------------------------------------------------------------- query
matchesQuery(n, q) ==
  \/ q = <<>>
  \/ Includes(ToLowerCase(n.title), q)
  \/ Includes(ToLowerCase(n.content), q)
  \/ \E k \in 1..Len(n.tags) : Includes(ToLowerCase(n.tags[k]), q)

\* a tag filter that matches by substring, like the free search
matchesTagSubstring(n, tf) ==
  \/ tf = <<>>
  \/ \E k \in 1..Len(n.tags) : Includes(ToLowerCase(n.tags[k]), tf)

matchesTag(n, tf) ==
  \/ tf = <<>>
  \/ \E k \in 1..Len(n.tags) : ToLowerCase(n.tags[k]) = tf

\* Array.prototype.sort((a, b) => b.updatedAt - a.updatedAt), a stable sort
RECURSIVE sortByUpdatedDesc(_)
sortByUpdatedDesc(s) ==
  IF Len(s) = 0 THEN <<>>
  ELSE LET rest == sortByUpdatedDesc(SubSeq(s, 1, Len(s) - 1))
           x == s[Len(s)]
           k == Cardinality({i \in 1..Len(rest) : rest[i].updatedAt >= x.updatedAt})
       IN  SubSeq(rest, 1, k) \o <<x>> \o SubSeq(rest, k + 1, Len(rest))

filteredNotes(list, qraw, tfraw) ==
  LET q == ToLowerCase(Trim(qraw))
      tf == ToLowerCase(Trim(tfraw))
  IN  sortByUpdatedDesc(SelectSeq(list, LAMBDA n : matchesQuery(n, q) /\ matchesTag(n, tf)))

\* a query that sorts the list itself: notes.list.sort(...).filter(...)
filteredNotesEvalInPlace(list, qraw, tfraw) ==
  [list |-> sortByUpdatedDesc(list), value |-> filteredNotes(list, qraw, tfraw)]

\* One evaluation of filteredNotes: filter builds a new array, and sort orders
\* that new array in place and returns it.  list is notes.list after the
\* evaluation, value is what the evaluation returns.
filteredNotesEval(list, qraw, tfraw) ==
  [list |-> list, value |-> filteredNotes(list, qraw, tfraw)]

\* ----------------------------------------------------------- list updates
\* a create that appends: [...notes.list, newNote]
createdListAppend(list, title, content, tags, r, t) ==
  list \o <<[id |-> uid(r, t), title |-> NormTitle(title), content |-> NormContent(content),
             tags |-> NormTags(tags), createdAt |-> t, updatedAt |-> t]>>

\* [newNote, ...notes.list]
createdList(list, title, content, tags, r, t) ==
  <<[id |-> uid(r, t), title |-> NormTitle(title), content |-> NormContent(content),
     tags |-> NormTags(tags), createdAt |-> t, updatedAt |-> t]>> \o list

\* an update that adds the note when no note has the id
updatedListUpsert(list, sel, title, content, tags, t) ==
  IF \E k \in 1..Len(list) : list[k].id = sel.id
  THEN [k \in 1..Len(list) |->
          IF list[k].id = sel.id
          THEN [list[k] EXCEPT !.title = NormTitle(title), !.content = NormContent(content),
                               !.tags = NormTags(tags), !.updatedAt = t]
          ELSE list[k]]
  ELSE list \o <<[sel EXCEPT !.title = NormTitle(title), !.content = NormContent(content),
                             !.tags = NormTags(tags), !.updatedAt = t]>>

\* an update that does not refresh updatedAt
updatedListStale(list, sel, title, content, tags, t) ==
  [k \in 1..Len(list) |->
     IF list[k].id = sel.id
     THEN [list[k] EXCEPT !.title = NormTitle(title), !.content = NormContent(content),
                          !.tags = NormTags(tags)]
     ELSE list[k]]

\* notes.list.map((n) => n.id === selectedNote.value!.id ? {...n, ...} : n)
updatedList(list, sel, title, content, tags, t) ==
  [k \in 1..Len(list) |->
     IF list[k].id = sel.id
     THEN [list[k] EXCEPT !.title = NormTitle(title), !.content = NormContent(content),
                          !.tags = NormTags(tags), !.updatedAt = t]
     ELSE list[k]]

\* notes.list.filter((n) => n.id !== selectedNote.value!.id)
deletedList(list, sel) == SelectSeq(list, LAMBDA n : n.id # sel.id)

\* whether some note of the list has the id
HasId(list, id) == \E k \in 1..Len(list) : list[k].id = id

\* ------------------------------------------------------------------ inputs
NotJson == <<"n", "o", "t", " ", "j", "s", "o", "n">>

\* a note an earlier session saved, at clock reading 0
SavedNote ==
  [id |-> uid(0, 0), title |-> <<"A">>, content |-> <<>>, tags |-> <<<<"a", "b">>>>,
   createdAt |-> 0, updatedAt |-> 0]

Email == <<"e">>

\* localStorage holding the three texts
Store(nt, ut, vt) ==
  [k \in Keys |-> IF k = LS_NOTES_KEY THEN nt ELSE IF k = LS_USER_KEY THEN ut ELSE vt]

\* what the three keys hold when the page starts: nothing; empty strings; texts
\* that do not parse; JSON of the wrong shape; what an earlier session saved
StartStores ==
  {Store(Absent, Absent, Absent),
   Store(Raw(<<>>), Raw(<<>>), Raw(<<>>)),
   Store(Raw(NotJson), Raw(NotJson), Raw(NotJson)),
   Store(JSONStringify(JNum(42)), JSONStringify(JNum(42)), Raw(List)),
   Store(JSONStringify(JArr(<<NoteToJson(SavedNote)>>)),
         JSONStringify(UserToJson(Email, <<>>)), Raw(Grid))}

TitleInputs == {<<" ">>, <<" ", "A">>}
ContentInputs == {<<"B", "a", " ">>}
TagInputs == {<<"a", "b", ",", " ", ",", "A", ",", "a", "b">>}
QueryInputs == {<<" ", "A">>}
TagFilterInputs == {<<" ", "B">>}
EmailInputs == {<<" ", "e">>}
NameInputs == {<<>>}

\* a note no list holds, for openEdit(n) and confirmDelete(n) called with a
\* note that is not on screen
GhostNote ==
  [id |-> <<"z", "z">>, title |-> <<"G">>, content |-> <<>>, tags |-> <<>>,
   createdAt |-> 0, updatedAt |-> 0]
NoteArgs == {GhostNote}

NoNote == <<>>

\* ------------------------------------------------------------------- state
VARIABLES
  user,               \* user.value: a parsed JSON value, JNull for null
  notes,              \* notes.list
  query,              \* query.value
  tagFilter,          \* tagFilter.value
  showCreate, showEdit, showDeleteConfirm,
  selectedNote,       \* selectedNote.value
  viewMode,           \* viewMode.value
  form,               \* the create/edit form
  store,              \* localStorage, by key
  now,                \* the last reading Date.now() gave
  pc,                 \* "start" before the startup task ran, then "ready"
  lastOp,             \* the repository operation that ran last
  events,             \* handler invocations so far
  editing,            \* the id of the note the edit dialog on screen was opened for
  deleting,           \* the id of the note the delete dialog on screen was opened for
  other               \* the page state of a second window on the same localStorage

vars ==
  <<user, notes, query, tagFilter, showCreate, showEdit, showDeleteConfirm,
    selectedNote, viewMode, form, store, now, pc, lastOp, events,
    editing, deleting, other>>

ui ==
  <<query, tagFilter, showCreate, showEdit, showDeleteConfirm, selectedNote, form,
    editing, deleting>>

\* one more handler invocation
Event == events < MaxEvents /\ events' = events + 1

EmptyForm == [title |-> <<>>, content |-> <<>>, tags |-> <<>>]

\* the state of one window before its startup task ran
Page ==
  [user |-> JNull, notes |-> <<>>, query |-> <<>>, tagFilter |-> <<>>,
   showCreate |-> FALSE, showEdit |-> FALSE, showDeleteConfirm |-> FALSE,
   selectedNote |-> NoNote, viewMode |-> Grid, form |-> EmptyForm,
   pc |-> "start", lastOp |-> "none", editing |-> NoNote, deleting |-> NoNote]

Init ==
  /\ user = JNull
  /\ notes = <<>>
  /\ query = <<>>
  /\ tagFilter = <<>>
  /\ showCreate = FALSE
  /\ showEdit = FALSE
  /\ showDeleteConfirm = FALSE
  /\ selectedNote = NoNote
  /\ viewMode = Grid
  /\ form = EmptyForm
  /\ store \in StartStores
  /\ now = 1
  /\ pc = "start"
  /\ lastOp = "none"
  /\ events = 0
  /\ editing = NoNote
  /\ deleting = NoNote
  /\ other = Page

\* useTask$: load persisted data
Load ==
  /\ pc = "start"
  /\ user' = loadUser(store)
  /\ notes' = loadNotes(store)
  /\ viewMode' = loadViewMode(store, viewMode)
  /\ pc' = "ready"
  /\ lastOp' = "load"
  /\ UNCHANGED <<ui, store, now, events>>
  /\ UNCHANGED other

\* Date.now(): the last reading, or a later one
Readings == {now, now + 1}

\* the Login button: login(authForm.email.trim(), authForm.name.trim())
Login ==
  /\ pc = "ready" /\ Event
  /\ ~Truthy(user)
  /\ \E e \in EmailInputs, n \in NameInputs :
       /\ Trim(e) # <<>>
       /\ user' = UserToJson(Trim(e), Trim(n))
       /\ store' = saveUser(store, UserToJson(Trim(e), Trim(n)))
  /\ UNCHANGED <<notes, ui, viewMode, now, pc, lastOp>>
  /\ UNCHANGED other

Logout ==
  /\ pc = "ready" /\ Event
  /\ Truthy(user)
  /\ user' = JNull
  /\ store' = saveUser(store, JNull)
  /\ UNCHANGED <<notes, ui, viewMode, now, pc, lastOp>>
  /\ UNCHANGED other

\* the notes on screen: filteredNotes.value
Rendered == filteredNotes(notes, query, tagFilter)

OpenCreate ==
  /\ pc = "ready" /\ Event
  /\ Truthy(user)
  /\ form' = EmptyForm
  /\ showCreate' = TRUE
  /\ UNCHANGED <<user, notes, query, tagFilter, showEdit, showDeleteConfirm,
                 selectedNote, viewMode, store, now, pc, lastOp>>
  /\ UNCHANGED <<editing, deleting, other>>

\* openEdit(n)
openEdit(n) ==
  /\ selectedNote' = <<n>>
  /\ form' = [title |-> n.title, content |-> n.content, tags |-> Join(n.tags)]
  /\ showEdit' = TRUE
  /\ UNCHANGED <<user, notes, query, tagFilter, showCreate, showDeleteConfirm,
                 viewMode, store, now, pc, lastOp>>
  /\ editing' = <<n.id>>
  /\ UNCHANGED <<deleting, other>>

\* the Edit button, or a double click, on a note on screen
OpenEdit ==
  /\ pc = "ready" /\ Event
  /\ \E k \in 1..Len(Rendered) : openEdit(Rendered[k])

\* openEdit called with a note that is not on screen
OpenEditArg ==
  /\ pc = "ready" /\ Event
  /\ \E n \in NoteArgs : openEdit(n)

CreateNote ==
  /\ pc = "ready" /\ Event
  /\ showCreate
  /\ \E r \in 0..MaxRand, t \in Readings :
       /\ now' = t
       /\ notes' = createdList(notes, form.title, form.content, form.tags, r, t)
       /\ store' = saveNotes(store, notes')
  /\ showCreate' = FALSE
  /\ lastOp' = "create"
  /\ UNCHANGED <<user, query, tagFilter, showEdit, showDeleteConfirm, selectedNote,
                 viewMode, form, pc>>
  /\ UNCHANGED <<editing, deleting, other>>

UpdateNote ==
  /\ pc = "ready" /\ Event
  /\ showEdit
  /\ IF selectedNote = NoNote
     THEN /\ lastOp' = "updateNone"
          /\ UNCHANGED <<notes, store, selectedNote, showEdit, now, editing>>
     ELSE /\ \E t \in Readings :
               /\ now' = t
               /\ notes' = updatedList(notes, selectedNote[1], form.title,
                                       form.content, form.tags, t)
          /\ store' = saveNotes(store, notes')
          /\ selectedNote' = NoNote
          /\ showEdit' = FALSE
          /\ editing' = NoNote
          /\ lastOp' = IF HasId(notes, selectedNote[1].id) THEN "update" ELSE "updateMiss"
  /\ UNCHANGED <<user, query, tagFilter, showCreate, showDeleteConfirm, viewMode,
                 form, pc>>
  /\ UNCHANGED <<deleting, other>>

\* confirmDelete(n)
confirmDelete(n) ==
  /\ selectedNote' = <<n>>
  /\ showDeleteConfirm' = TRUE
  /\ UNCHANGED <<user, notes, query, tagFilter, showCreate, showEdit, viewMode,
                 form, store, now, pc, lastOp>>
  /\ deleting' = <<n.id>>
  /\ UNCHANGED <<editing, other>>

\* the Delete button of a note on screen
ConfirmDelete ==
  /\ pc = "ready" /\ Event
  /\ \E k \in 1..Len(Rendered) : confirmDelete(Rendered[k])

\* confirmDelete called with a note that is not on screen
ConfirmDeleteArg ==
  /\ pc = "ready" /\ Event
  /\ \E n \in NoteArgs : confirmDelete(n)

DeleteNote ==
  /\ pc = "ready" /\ Event
  /\ showDeleteConfirm
  /\ IF selectedNote = NoNote
     THEN /\ lastOp' = "deleteNone"
          /\ UNCHANGED <<notes, store, selectedNote, showDeleteConfirm, deleting>>
     ELSE /\ notes' = deletedList(notes, selectedNote[1])
          /\ store' = saveNotes(store, notes')
          /\ selectedNote' = NoNote
          /\ showDeleteConfirm' = FALSE
          /\ deleting' = NoNote
          /\ lastOp' = IF HasId(notes, selectedNote[1].id) THEN "delete" ELSE "deleteMiss"
  /\ UNCHANGED <<user, query, tagFilter, showCreate, showEdit, viewMode, form, now, pc>>
  /\ UNCHANGED <<editing, other>>

\* the close and Cancel buttons of the three dialogs
CloseCreate ==
  /\ pc = "ready" /\ Event /\ showCreate
  /\ showCreate' = FALSE
  /\ UNCHANGED <<user, notes, query, tagFilter, showEdit, showDeleteConfirm,
                 selectedNote, viewMode, form, store, now, pc, lastOp>>
  /\ UNCHANGED <<editing, deleting, other>>

CloseEdit ==
  /\ pc = "ready" /\ Event /\ showEdit
  /\ showEdit' = FALSE
  /\ UNCHANGED <<user, notes, query, tagFilter, showCreate, showDeleteConfirm,
                 selectedNote, viewMode, form, store, now, pc, lastOp>>
  /\ editing' = NoNote
  /\ UNCHANGED <<deleting, other>>

CloseDelete ==
  /\ pc = "ready" /\ Event /\ showDeleteConfirm
  /\ showDeleteConfirm' = FALSE
  /\ UNCHANGED <<user, notes, query, tagFilter, showCreate, showEdit,
                 selectedNote, viewMode, form, store, now, pc, lastOp>>
  /\ deleting' = NoNote
  /\ UNCHANGED <<editing, other>>

toggleView ==
  /\ pc = "ready" /\ Event
  /\ viewMode' = IF viewMode = Grid THEN List ELSE Grid
  /\ store' = [store EXCEPT ![LS_VIEWMODE_KEY] = Raw(viewMode')]
  /\ UNCHANGED <<user, notes, ui, now, pc, lastOp>>
  /\ UNCHANGED other

clearFilters ==
  /\ pc = "ready" /\ Event
  /\ query' = <<>>
  /\ tagFilter' = <<>>
  /\ UNCHANGED <<user, notes, showCreate, showEdit, showDeleteConfirm, selectedNote,
                 viewMode, form, store, now, pc, lastOp>>
  /\ UNCHANGED <<editing, deleting, other>>

\* onInput$ of the search box
SetQuery ==
  /\ pc = "ready" /\ Event
  /\ \E q \in QueryInputs : query' = q
  /\ UNCHANGED <<user, notes, tagFilter, showCreate, showEdit, showDeleteConfirm,
                 selectedNote, viewMode, form, store, now, pc, lastOp>>
  /\ UNCHANGED <<editing, deleting, other>>

\* onInput$ of the tag box
SetTagFilter ==
  /\ pc = "ready" /\ Event
  /\ \E t \in TagFilterInputs : tagFilter' = t
  /\ UNCHANGED <<user, notes, query, showCreate, showEdit, showDeleteConfirm,
                 selectedNote, viewMode, form, store, now, pc, lastOp>>
  /\ UNCHANGED <<editing, deleting, other>>

\* onClick$ of a tag of a note on screen: tagFilter.value = t
ClickTag ==
  /\ pc = "ready" /\ Event
  /\ \E k \in 1..Len(Rendered) : \E j \in 1..Len(Rendered[k].tags) :
       tagFilter' = Rendered[k].tags[j]
  /\ UNCHANGED <<user, notes, query, showCreate, showEdit, showDeleteConfirm,
                 selectedNote, viewMode, form, store, now, pc, lastOp>>
  /\ UNCHANGED <<editing, deleting, other>>

\* onInput$ of the three fields of the open create or edit dialog
SetFormTitle ==
  /\ pc = "ready" /\ Event /\ (showCreate \/ showEdit)
  /\ \E t \in TitleInputs : form' = [form EXCEPT !.title = t]
  /\ UNCHANGED <<user, notes, query, tagFilter, showCreate, showEdit,
                 showDeleteConfirm, selectedNote, viewMode, store, now, pc, lastOp>>
  /\ UNCHANGED <<editing, deleting, other>>

SetFormContent ==
  /\ pc = "ready" /\ Event /\ (showCreate \/ showEdit)
  /\ \E c \in ContentInputs : form' = [form EXCEPT !.content = c]
  /\ UNCHANGED <<user, notes, query, tagFilter, showCreate, showEdit,
                 showDeleteConfirm, selectedNote, viewMode, store, now, pc, lastOp>>
  /\ UNCHANGED <<editing, deleting, other>>

SetFormTags ==
  /\ pc = "ready" /\ Event /\ (showCreate \/ showEdit)
  /\ \E t \in TagInputs : form' = [form EXCEPT !.tags = t]
  /\ UNCHANGED <<user, notes, query, tagFilter, showCreate, showEdit,
                 showDeleteConfirm, selectedNote, viewMode, store, now, pc, lastOp>>
  /\ UNCHANGED <<editing, deleting, other>>

\* useComputed$ evaluates filteredNotes again
ComputeFilteredNotes ==
  /\ pc = "ready"
  /\ notes' = filteredNotesEval(notes, query, tagFilter).list
  /\ UNCHANGED <<user, ui, viewMode, store, now, pc, lastOp, events, other>>

\* the notes, the session and the three dialogs
NextRepo ==
  \/ Load \/ Login \/ Logout
  \/ OpenCreate \/ OpenEdit \/ CreateNote \/ UpdateNote \/ ConfirmDelete \/ DeleteNote
  \/ CloseCreate \/ CloseEdit \/ CloseDelete
  \/ SetFormTitle \/ SetFormContent \/ SetFormTags

\* the whole page: the search box, the tag filter and the view switch as well
Next ==
  \/ NextRepo
  \/ toggleView \/ clearFilters \/ SetQuery \/ SetTagFilter \/ ClickTag
  \/ ComputeFilteredNotes

Spec == Init /\ [][Next]_vars

\* The filter and view handlers write only query, tagFilter, viewMode and the
\* view-mode key; with both filters empty every note is on screen.  Without
\* them the notes, the dialogs and the notes key take the same values.
SpecRepo == Init /\ [][NextRepo]_vars

\* the repository operations, with openEdit and confirmDelete also called with
\* a note that no list holds
NextApi ==
  \/ Load \/ Login \/ OpenCreate \/ CreateNote
  \/ OpenEdit \/ OpenEditArg \/ UpdateNote
  \/ ConfirmDelete \/ ConfirmDeleteArg \/ DeleteNote
  \/ SetFormTitle \/ SetFormContent \/ SetFormTags

SpecApi == Init /\ [][NextApi]_vars

\* the page without the close buttons and the form fields: every handler that
\* writes the list or a key of the store, the filters, and the evaluation of
\* filteredNotes
NextQuery ==
  \/ Load \/ Login \/ Logout
  \/ OpenCreate \/ OpenEdit \/ CreateNote \/ UpdateNote \/ ConfirmDelete \/ DeleteNote
  \/ toggleView \/ clearFilters \/ SetQuery \/ SetTagFilter \/ ClickTag
  \/ ComputeFilteredNotes

SpecQuery == Init /\ [][NextQuery]_vars

\* the state of the page in this window
ThisPage ==
  [user |-> user, notes |-> notes, query |-> query, tagFilter |-> tagFilter,
   showCreate |-> showCreate, showEdit |-> showEdit,
   showDeleteConfirm |-> showDeleteConfirm, selectedNote |-> selectedNote,
   viewMode |-> viewMode, form |-> form, pc |-> pc, lastOp |-> lastOp,
   editing |-> editing, deleting |-> deleting]

\* The user turns to the second window, which runs the same component on the
\* same localStorage: the two pages change places.  Each page has its own
\* signals and stores and runs its startup task once; the store and the clock
\* are shared.  Turning to the other window is a user action like a click.
SwitchWindow ==
  /\ Event
  /\ other' = ThisPage
  /\ user' = other.user
  /\ notes' = other.notes
  /\ query' = other.query
  /\ tagFilter' = other.tagFilter
  /\ showCreate' = other.showCreate
  /\ showEdit' = other.showEdit
  /\ showDeleteConfirm' = other.showDeleteConfirm
  /\ selectedNote' = other.selectedNote
  /\ viewMode' = other.viewMode
  /\ form' = other.form
  /\ pc' = other.pc
  /\ lastOp' = other.lastOp
  /\ editing' = other.editing
  /\ deleting' = other.deleting
  /\ UNCHANGED <<store, now>>

\* two windows on one localStorage: the repository operations of either
NextWindows ==
  \/ Load \/ Login \/ OpenCreate \/ CreateNote \/ OpenEdit \/ UpdateNote
  \/ ConfirmDelete \/ DeleteNote \/ SetFormTitle
  \/ SwitchWindow

SpecWindows == Init /\ [][NextWindows]_vars

\* ------------------------------------------------------------------ claims
\* the ids of the list
Ids(list) == {list[k].id : k \in 1..Len(list)}

\* C1: no two notes of the list have the same id, in any reachable state
C1_UniqueIds ==
  \A i, j \in 1..Len(notes) : i # j => notes[i].id # notes[j].id

\* createdAt never exceeds updatedAt
C2_Ordered == \A k \in 1..Len(notes) : notes[k].createdAt <= notes[k].updatedAt

\* a create stamps the new note with the reading it took
C2_CreateStep ==
  CreateNote => notes'[1].createdAt = now' /\ notes'[1].updatedAt = now'

\* an update restamps updatedAt and keeps createdAt
C2_UpdateStep ==
  (UpdateNote /\ selectedNote # NoNote) =>
    \A k \in 1..Len(notes) :
      notes[k].id = selectedNote[1].id =>
        /\ notes'[k].updatedAt = now'
        /\ notes'[k].createdAt = notes[k].createdAt

C3_Persisted ==
  lastOp \notin {"none", "load"} =>
    /\ Parses(store[LS_NOTES_KEY])
    /\ JSONParse(store[LS_NOTES_KEY]).t = "arr"
    /\ Len(JSONParse(store[LS_NOTES_KEY]).a) = Len(notes)
    /\ loadNotes(store) = notes

\* a delete completed and left notes behind, with the key rewritten
C3_Witness == lastOp = "delete" /\ Len(notes) >= 1 /\ loadNotes(store) = notes

\* C4: an update whose id no note has leaves the list as it was, whatever the
\* form holds
C4_UpdateMiss ==
  [][(UpdateNote /\ selectedNote # NoNote /\ selectedNote[1].id \notin Ids(notes))
       => notes' = notes]_vars

\* an update ran with an id that no note had
C4_Witness == lastOp = "updateMiss" /\ Len(notes) >= 1

\* the list without its k-th note
Without(list, k) == SubSeq(list, 1, k - 1) \o SubSeq(list, k + 1, Len(list))

\* what one delete does to the list
C5_DeleteStep ==
  (DeleteNote /\ selectedNote # NoNote) =>
    IF selectedNote[1].id \in Ids(notes)
    THEN /\ Len(notes') = Len(notes) - 1
         /\ selectedNote[1].id \notin Ids(notes')
         /\ \E k \in 1..Len(notes) :
              notes[k].id = selectedNote[1].id /\ notes' = Without(notes, k)
    ELSE notes' = notes

\* C5: a delete of a present id removes exactly one note, leaves no note with
\* the id and keeps the others in order; a delete of an absent id changes nothing
C5_Delete == [][C5_DeleteStep]_vars

\* the note the form's fields make of note n at clock reading t
Edited(n, t) ==
  [n EXCEPT !.title = NormTitle(form.title), !.content = NormContent(form.content),
            !.tags = NormTags(form.tags), !.updatedAt = t]

\* what one update of a present id does to the list
C6_UpdateStep ==
  (UpdateNote /\ selectedNote # NoNote /\ selectedNote[1].id \in Ids(notes)) =>
    /\ Len(notes') = Len(notes)
    /\ \E k \in 1..Len(notes) :
         /\ notes[k].id = selectedNote[1].id
         /\ notes'[k] = Edited(notes[k], now')
         /\ \A j \in 1..Len(notes) : j # k => notes'[j] = notes[j]

\* C6: an update of a present id rewrites title, content, tags and updatedAt
\* of that one note, in place, and leaves every other note as it was
C6_Update == [][C6_UpdateStep]_vars

\* what one create does to the list
C7_CreateStep ==
  CreateNote =>
    /\ Len(notes') = Len(notes) + 1
    /\ notes'[1].createdAt = now'
    /\ notes'[1].updatedAt = now'
    /\ SubSeq(notes', 2, Len(notes')) = notes

\* C7: a create puts the new note first, with createdAt = updatedAt = now, and
\* keeps the earlier notes behind it, unchanged and in order
C7_Create == [][C7_CreateStep]_vars

\* a create ran on a list that already held a note
C7_Witness == lastOp = "create" /\ Len(notes) >= 2 /\ notes[1].createdAt = now

\* the text without the spaces at its two ends
RECURSIVE Strip(_)
Strip(s) ==
  IF Len(s) = 0 THEN s
  ELSE IF Head(s) = " " THEN Strip(Tail(s))
  ELSE IF s[Len(s)] = " " THEN Strip(SubSeq(s, 1, Len(s) - 1))
  ELSE s

\* the non-blank pieces between the commas of the text, each stripped
RECURSIVE Pieces(_)
Pieces(s) ==
  LET commas == {i \in 1..Len(s) : s[i] = ","}
  IN  IF commas = {}
      THEN IF Strip(s) = <<>> THEN <<>> ELSE <<Strip(s)>>
      ELSE LET i == SetMin(commas)
               first == Strip(SubSeq(s, 1, i - 1))
           IN  (IF first = <<>> THEN <<>> ELSE <<first>>)
               \o Pieces(SubSeq(s, i + 1, Len(s)))

\* empty or spaces only
Blank(s) == \A i \in 1..Len(s) : s[i] = " "

\* no stored title or tag is blank
C8_NoBlank ==
  \A k \in 1..Len(notes) :
    /\ ~Blank(notes[k].title)
    /\ \A j \in 1..Len(notes[k].tags) : ~Blank(notes[k].tags[j])

\* note n holds the title and tags the form normalizes to
C8_Written(n) ==
  /\ n.title = (IF Blank(form.title) THEN Untitled ELSE Strip(form.title))
  /\ n.tags = Pieces(form.tags)

\* a create writes the normalized title and tags
C8_CreateStep == CreateNote => C8_Written(notes'[1])

\* an update writes the normalized title and tags
C8_UpdateStep ==
  (UpdateNote /\ selectedNote # NoNote) =>
    \A k \in 1..Len(notes) :
      notes[k].id = selectedNote[1].id => C8_Written(notes'[k])

\* C8: no note has a blank title or a blank tag; a create or update stores
\* "Untitled" for a blank title input and, as tags, the stripped non-blank
\* pieces of the tag text, in order, duplicates kept
C8_Normalized == []C8_NoBlank /\ [][C8_CreateStep /\ C8_UpdateStep]_vars

\* a note was written from a blank title and a tag text with an empty piece
\* and a repeated tag
C8_Witness ==
  /\ lastOp \in {"create", "update"}
  /\ \E k \in 1..Len(notes) :
       /\ notes[k].title = Untitled
       /\ notes[k].tags = <<<<"a", "b">>, <<"A">>, <<"a", "b">>>>

\* needle occurs in hay
Occurs(needle, hay) ==
  \E i \in 0..Len(hay) :
    /\ i + Len(needle) <= Len(hay)
    /\ \A k \in 1..Len(needle) : hay[i + k] = needle[k]

\* the text test of the search box
TextMatch(n, q) ==
  \/ Len(q) = 0
  \/ Occurs(q, ToLowerCase(n.title))
  \/ Occurs(q, ToLowerCase(n.content))
  \/ \E t \in {n.tags[k] : k \in 1..Len(n.tags)} : Occurs(q, ToLowerCase(t))

\* the exact-tag test
TagMatch(n, tf) ==
  \/ Len(tf) = 0
  \/ tf \in {ToLowerCase(n.tags[k]) : k \in 1..Len(n.tags)}

\* how often the list holds x
Count(list, x) == Cardinality({k \in 1..Len(list) : list[k] = x})

\* C9: the filtered list holds exactly the notes that pass the text test and
\* the tag test, each as often as the list holds it, and updatedAt never
\* increases along it
C9_Query ==
  LET q == ToLowerCase(Strip(query))
      tf == ToLowerCase(Strip(tagFilter))
      R == filteredNotes(notes, query, tagFilter)
  IN  /\ \A x \in {notes[k] : k \in 1..Len(notes)} \cup {R[k] : k \in 1..Len(R)} :
           Count(R, x) = (IF TextMatch(x, q) /\ TagMatch(x, tf) THEN Count(notes, x) ELSE 0)
      /\ \A i, j \in 1..Len(R) : i < j => R[i].updatedAt >= R[j].updatedAt

\* the tag filter "A" keeps the note tagged "A" and drops the note tagged "ab"
C9_Witness ==
  /\ tagFilter = <<"A">>
  /\ Len(notes) = 2
  /\ Len(Rendered) = 1
  /\ \E k \in 1..Len(notes) : notes[k].tags = <<<<"a", "b">>>>

\* an identity: an object with a string email
IsIdentity(j) ==
  /\ j.t = "obj"
  /\ \E i \in 1..Len(j.a) : j.a[i].s = <<"email">> /\ j.a[i].a[1].t = "str"

\* C10: right after the startup load, a notes text that does not parse or is no
\* array gives the empty list, a session text that does not parse or is no
\* identity gives no identity, a view text other than grid and list gives grid
C10_Defaults ==
  (pc = "ready" /\ events = 0) =>
    /\ (~Parses(store[LS_NOTES_KEY]) \/ JSONParse(store[LS_NOTES_KEY]).t # "arr")
         => notes = <<>>
    /\ (~Parses(store[LS_USER_KEY]) \/ ~IsIdentity(JSONParse(store[LS_USER_KEY])))
         => user = JNull
    /\ (store[LS_VIEWMODE_KEY] \notin {Raw(Grid), Raw(List)}) => viewMode = Grid

\* C11: an evaluation of filteredNotes, for whatever search text and tag filter
\* are set, leaves the list (its notes and their order) and every key of the
\* store as they were; and the text under the notes key changes only in a step
\* of createNote, updateNote or deleteNote
C11_ReadOnly ==
  [][/\ ComputeFilteredNotes => (notes' = notes /\ store' = store)
     /\ store'[LS_NOTES_KEY] # store[LS_NOTES_KEY]
          => (CreateNote \/ UpdateNote \/ DeleteNote)]_vars

\* a search text is set, and the list is not in the order the evaluation
\* returns, so a sort of the list itself would show
C11_Witness ==
  /\ pc = "ready"
  /\ query # <<>>
  /\ sortByUpdatedDesc(notes) # notes
  /\ filteredNotesEval(notes, query, tagFilter).value # <<>>
  /\ store = saveNotes(store, notes)

\* the session key is there exactly when an identity is live, and then holds
\* the serialization of that identity
SessionKeyInSync ==
  IF Truthy(user) THEN store[LS_USER_KEY] = JSONStringify(user)
  ELSE store[LS_USER_KEY] = Absent

\* C12 as stated: after the startup load, and after any logins and logouts
\* that follow, the session key is there exactly when an identity is live, and
\* then holds the serialization of that identity
C12_SessionKey == pc = "ready" => SessionKeyInSync

\* C12: a login or a logout leaves the session key there exactly when an
\* identity is live, holding the serialization of that identity (login writes
\* it, logout removes it), and once that is so it stays so; the startup load
\* alone does not establish it
C12_SessionKeyAfterSave ==
  [][(Login \/ Logout \/ SessionKeyInSync) => SessionKeyInSync']_vars

\* a login on a store that started with nothing under the notes and session
\* keys: the identity is live and the session key holds its serialization
C12_Witness ==
  /\ store[LS_NOTES_KEY] = Absent
  /\ user = UserToJson(Email, <<>>)
  /\ store[LS_USER_KEY] = JSONStringify(user)

\* C13: with two windows on one store, each having loaded once at its start,
\* a createNote, updateNote or deleteNote of one window writes that window's
\* own list as the whole collection, so a note that only the other window
\* holds (one it created meanwhile) is not in the stored collection afterwards
C13_LostUpdate ==
  [][((CreateNote \/ UpdateNote \/ DeleteNote)
        /\ lastOp' \notin {"updateNone", "deleteNone"})
     => /\ loadNotes(store') = notes'
        /\ \A k \in 1..Len(other.notes) :
             other.notes[k].id \notin Ids(notes')
               => other.notes[k].id \notin Ids(loadNotes(store'))]_vars

\* a lost update: the user turned to the other window twice, and in each
\* window opened the create dialog and created one note (six user actions in
\* all, so nothing was deleted); the other window's note was stored by its
\* createNote, this window never held it, and after this window's createNote
\* the stored collection does not hold it
C13_Witness ==
  /\ pc = "ready" /\ other.pc = "ready"
  /\ events = 6
  /\ other.lastOp = "create" /\ lastOp = "create"
  /\ other.notes[1].id \notin Ids(notes)
  /\ other.notes[1].id \notin Ids(loadNotes(store))
  /\ loadNotes(store) = notes

\* C14: whatever the order of openEdit, confirmDelete, updateNote and
\* deleteNote, updateNote changes only notes with the id openEdit was last
\* called for (the note whose fields the form was filled from), and deleteNote
\* removes only notes with the id confirmDelete was last called for
C14_Targets ==
  [][/\ UpdateNote =>
          \A k \in 1..Len(notes) :
            notes'[k] # notes[k] => (editing # NoNote /\ notes[k].id = editing[1])
     /\ DeleteNote =>
          \A k \in 1..Len(notes) :
            notes[k].id \notin Ids(notes')
              => (deleting # NoNote /\ notes[k].id = deleting[1])]_vars

====
